---- MODULE Spec2Model ----
(***************************************************************************)
(* Batch conversion orchestration of debucon.                              *)
(*                                                                         *)
(* Two windowed orchestrators are modelled with one set of variables:      *)
(*   pipeline = "image" : the ImageConverter of src/unnamed/part_000       *)
(*   pipeline = "audio" : src/components/AudioConverter.tsx                *)
(*                                                                         *)
(* React state (useState) is a variable; a functional update               *)
(* setX(prev => f(prev)) is applied in the order it is queued, so the      *)
(* updates of one synchronous stretch of JavaScript are one atomic step.   *)
(* An async function is cut at its awaits: the part of the run that        *)
(* follows the settling of the last promise of a window (the continuation  *)
(* of await Promise.all) runs in the same microtask checkpoint as that     *)
(* settling and is therefore part of the same action.                      *)
(*                                                                         *)
(* A file is modelled by its name, a name by the sequence of its           *)
(* dot-separated segments: "a.tar.gz" is <<"a", "tar", "gz">>.  Task       *)
(* indices are 1-based here; the JavaScript index is one less.             *)
(***************************************************************************)
EXTENDS Integers, Sequences, FiniteSets, TLC

\* ------------------------------------------------------------------ bounds
MaxFiles == 2     \* length of the task list
MaxRuns == 1      \* runs started in one behaviour
MaxWindow == 2    \* largest position the concurrency slider is moved to
MaxEdits == 1     \* changes of a setting in one behaviour
MaxBatch == 3     \* length of the task list in the windowing scenario
WindowRuns == 1   \* runs started in the windowing scenario
MaxReruns == 2    \* runs started in the re-run scenario
MaxClicks == 2    \* clicks on the convert button in the empty-batch scenario

\* files offered to the two dropzones
ImageFileNames == { <<"a", "png">>, <<"a", "jpg">>, <<"notes", "txt">> }
AudioFileNames == { <<"a", "wav">>, <<"a", "flac">>, <<"notes", "txt">> }

\* files offered in the naming scenario: a.png, a.b.png and .png (a.wav,
\* a.b.wav and .wav), a name being the sequence of its dot-separated parts
DottedImageNames == { <<"a", "png">>, <<"a", "b", "png">>, <<"", "png">> }
DottedAudioNames == { <<"a", "wav">>, <<"a", "b", "wav">>, <<"", "wav">> }

\* files offered in the settings scenario: each dropzone accepts one of them
SettingsFileNames == { <<"a", "png">>, <<"a", "wav">> }

\* target formats explored per pipeline (subsets of the select options)
ImageFormats == {"png", "ico"}
AudioFormats == {"mp3", "wav"}
Qualities == {100, 60}
Bitrates == {192, 128}
SampleRates == {48000, 44100}
ChannelCounts == {2, 1}

\* --------------------------------------------------------- program constants
ImageMaxConcurrentLimit == 6
AudioMaxConcurrentLimit == 3

Min(a, b) == IF a < b THEN a ELSE b

VARIABLES
  pipeline,           \* which component this behaviour is about
  selectedFiles,      \* useState<File[]>
  fileStates,         \* useState<FileProcessingState[]>
  isConverting,       \* useState(false)
  conversionResults,  \* useState<ConversionResult[]>
  targetFormat,       \* useState('png') / useState('mp3')
  quality,            \* useState(100)                       (image)
  bitrateKbps,        \* useState(192)                       (audio)
  sampleRate,         \* useState(48000)                     (audio)
  channels,           \* useState(2)                         (audio)
  maxConcurrent,      \* useState(3) / useState(2)
  ffmpegRef,          \* useRef<FFmpeg | null>: NoEngine or the engine's id
  enginesLoaded,      \* number of engines whose load() resolved
  closure,            \* values captured by the running convertImages/convertAll
  chunkStart,         \* first index of the chunk the run is awaiting
  allResults,         \* the run's local allResults
  promises,           \* chunkPromises of the awaited chunk, by task index
  calls,              \* per task index: adapter invocations in the latest run
  outcome,            \* log of the latest run: [idx, res] per returned call,
                      \* in the order the calls returned
  runs,               \* number of runs started
  edits,              \* number of setting changes made
  archive,            \* the zip a pending downloadAll is generating
  engineFS,           \* files in the engines' file systems: << engine, name >>
  objectUrls,         \* blobs that have a live object URL
  clicks,             \* number of clicks on the convert button
  timers,             \* task indices whose progressInterval is live
  ffmpegProgress,     \* useState<number>(0), set by the engine's events
  request,            \* a request sent to a convert endpoint
  response            \* the status the endpoint answered with

vars == << pipeline, selectedFiles, fileStates, isConverting, conversionResults,
           targetFormat, quality, bitrateKbps, sampleRate, channels,
           maxConcurrent, ffmpegRef, enginesLoaded, closure,
           chunkStart, allResults, promises, calls, outcome, runs, edits,
           archive, engineFS, objectUrls, clicks, timers, ffmpegProgress,
           request, response >>

uiVars == << targetFormat, quality, bitrateKbps, sampleRate, channels,
             maxConcurrent, edits >>
settings == << targetFormat, quality, bitrateKbps, sampleRate, channels,
               maxConcurrent >>
runVars == << closure, chunkStart, allResults, promises, calls, outcome, runs >>
engineVars == << ffmpegRef, enginesLoaded, engineFS >>
endpointVars == << request, response >>
\* what the component writes and never reads, followed in the scenarios
\* that are about it
progressVars == << timers, ffmpegProgress >>
observers == << objectUrls, clicks, progressVars >>

\* ------------------------------------------------------------- data model
NoResult == [originalName |-> <<>>, convertedName |-> <<>>,
             blob |-> [run |-> 0, idx |-> 0, type |-> "none"]]
NoError == "undefined"
\* an FFmpeg instance is named by the run and the task whose ensureFFmpeg
\* call evaluated `new FFmpeg()`
NoEngine == << 0, 0 >>
NoProgress == -1     \* the image FileProcessingState never sets progress

\* formData.get('file') of a form without a file
NoFile == [present |-> FALSE, size |-> 0, thrown |-> "none"]

NoRequest == [version |-> "none", file |-> NoFile, format |-> ""]
NoResponse == 0      \* no answer yet

NoClosure == [fileStates |-> <<>>, targetFormat |-> "none", quality |-> 0,
              bitrateKbps |-> 0, sampleRate |-> 0, channels |-> 0,
              maxConcurrent |-> 0]

\* the state object onDrop creates for an accepted file
NewFileState(file) ==
  [file |-> file, status |-> "pending", result |-> NoResult, error |-> NoError,
   progress |-> IF pipeline = "audio" THEN 0 ELSE NoProgress]

\* the extension tests of the two onDrop filters (file.type is derived from
\* the extension by the browser, so the regular expression decides)
ImageExtensions ==
  {"png", "jpg", "jpeg", "webp", "svg", "bmp", "tif", "tiff", "ico", "avif",
   "heic", "heif", "gif", "psd", "3fr", "arw", "cr2", "cr3", "crw", "dcr",
   "dng", "eps", "erf", "mos", "mrw", "nef", "odd", "odg", "orf", "pef", "ppm",
   "ps", "pub", "raf", "raw", "rw2", "x3f", "xcf", "xps"}
AudioExtensions ==
  {"mp3", "wav", "m4a", "aac", "ogg", "opus", "flac", "aif", "aiff", "wma",
   "webm", "mp4"}

Offered == IF pipeline = "audio" THEN AudioFileNames ELSE ImageFileNames

Accepted(name) ==
  /\ Len(name) >= 2
  /\ name[Len(name)] \in
       (IF pipeline = "audio" THEN AudioExtensions ELSE ImageExtensions)

\* ------------------------------------------------------------------- Init
\* the state of a component after construction
InitialState ==
  /\ selectedFiles = <<>>
  /\ fileStates = <<>>
  /\ isConverting = FALSE
  /\ conversionResults = <<>>
  /\ targetFormat = (IF pipeline = "audio" THEN "mp3" ELSE "png")
  /\ quality = 100
  /\ bitrateKbps = 192
  /\ sampleRate = 48000
  /\ channels = 2
  /\ maxConcurrent = (IF pipeline = "audio" THEN 2 ELSE 3)
  /\ ffmpegRef = NoEngine
  /\ enginesLoaded = 0
  /\ closure = NoClosure
  /\ chunkStart = 0
  /\ allResults = <<>>
  /\ promises = <<>>
  /\ calls = <<>>
  /\ outcome = <<>>
  /\ runs = 0
  /\ edits = 0
  /\ archive = <<>>
  /\ engineFS = {}
  /\ objectUrls = {}
  /\ clicks = 0
  /\ timers = {}
  /\ ffmpegProgress = 0
  /\ request = NoRequest
  /\ response = NoResponse

\* one of the two windowed converters
Init == pipeline \in {"image", "audio"} /\ InitialState

\* the converter of src/components/ImageConverter.tsx
InitSequential == pipeline = "simple" /\ InitialState

\* any of the three converters
InitAny == pipeline \in {"image", "audio", "simple"} /\ InitialState

\* ------------------------------------------------------ file list handlers
onDrop(file) ==
  /\ IF Accepted(file)
       THEN /\ selectedFiles' = Append(selectedFiles, file)
            /\ fileStates' = Append(fileStates, NewFileState(file))
       ELSE UNCHANGED << selectedFiles, fileStates >>
  /\ UNCHANGED << pipeline, endpointVars, isConverting, conversionResults,
                  uiVars, engineVars, runVars, archive >>

RemoveAt(s, index) ==
  [i \in 1..(Len(s) - 1) |-> IF i < index THEN s[i] ELSE s[i + 1]]

\* a remove button that is rendered during a run too
removeFile_always(index) ==
  /\ index \in 1..Len(fileStates)
  /\ selectedFiles' = RemoveAt(selectedFiles, index)
  /\ fileStates' = RemoveAt(fileStates, index)
  /\ calls' = << >>
  /\ outcome' = << >>
  /\ UNCHANGED << pipeline, endpointVars, isConverting, conversionResults,
                  uiVars, engineVars, closure, chunkStart, allResults,
                  promises, runs, archive >>

\* the remove button is rendered only while !isConverting
removeFile(index) ==
  /\ ~isConverting
  /\ index \in 1..Len(fileStates)
  /\ selectedFiles' = RemoveAt(selectedFiles, index)
  /\ fileStates' = RemoveAt(fileStates, index)
  /\ calls' = << >>      \* the log of the latest run no longer matches the list
  /\ outcome' = << >>
  /\ UNCHANGED << pipeline, endpointVars, isConverting, conversionResults,
                  uiVars, engineVars, closure, chunkStart, allResults,
                  promises, runs, archive >>

\* the clear button is disabled while isConverting and is rendered only for
\* a non-empty selection
clearAllFiles ==
  /\ ~isConverting
  /\ Len(selectedFiles) > 0
  /\ selectedFiles' = <<>>
  /\ conversionResults' = <<>>
  /\ fileStates' = <<>>
  /\ calls' = << >>
  /\ outcome' = << >>
  /\ UNCHANGED << pipeline, endpointVars, isConverting, uiVars, engineVars,
                  closure, chunkStart, allResults, promises, runs, archive >>

\* ------------------------------------------------------- settings handlers
setTargetFormat(f) ==
  /\ f \in (IF pipeline = "audio" THEN AudioFormats ELSE ImageFormats)
  /\ f # targetFormat
  /\ targetFormat' = f
  /\ UNCHANGED << pipeline, endpointVars, selectedFiles, fileStates,
                  isConverting, conversionResults, quality, bitrateKbps,
                  sampleRate, channels, maxConcurrent, engineVars, runVars,
                  archive >>

setQuality(q) ==
  /\ pipeline = "image"
  /\ q # quality
  /\ quality' = q
  /\ UNCHANGED << pipeline, endpointVars, selectedFiles, fileStates,
                  isConverting, conversionResults, targetFormat, bitrateKbps,
                  sampleRate, channels, maxConcurrent, engineVars, runVars,
                  archive >>

setBitrateKbps(b) ==
  /\ pipeline = "audio"
  /\ b # bitrateKbps
  /\ bitrateKbps' = b
  /\ UNCHANGED << pipeline, endpointVars, selectedFiles, fileStates,
                  isConverting, conversionResults, targetFormat, quality,
                  sampleRate, channels, maxConcurrent, engineVars, runVars,
                  archive >>

setSampleRate(r) ==
  /\ pipeline = "audio"
  /\ r # sampleRate
  /\ sampleRate' = r
  /\ UNCHANGED << pipeline, endpointVars, selectedFiles, fileStates,
                  isConverting, conversionResults, targetFormat, quality,
                  bitrateKbps, channels, maxConcurrent, engineVars, runVars,
                  archive >>

setChannels(c) ==
  /\ pipeline = "audio"
  /\ c # channels
  /\ channels' = c
  /\ UNCHANGED << pipeline, endpointVars, selectedFiles, fileStates,
                  isConverting, conversionResults, targetFormat, quality,
                  bitrateKbps, sampleRate, maxConcurrent, engineVars, runVars,
                  archive >>

\* the range input: min 1, max 6 (image) or 3 (audio)
MaxConcurrentLimit ==
  IF pipeline = "audio" THEN AudioMaxConcurrentLimit
  ELSE ImageMaxConcurrentLimit

setMaxConcurrent(w) ==
  /\ w \in 1..Min(MaxConcurrentLimit, MaxWindow)
  /\ w # maxConcurrent
  /\ maxConcurrent' = w
  /\ UNCHANGED << pipeline, endpointVars, selectedFiles, fileStates,
                  isConverting, conversionResults, targetFormat, quality,
                  bitrateKbps, sampleRate, channels, engineVars, runVars,
                  archive >>

\* ------------------------------------------------------- image endpoint
\* POST of app/api/convert/route.ts: the format the switch really writes
ActualFormat(format) ==
  IF format \in {"bmp", "psd", "ico"} THEN "png" ELSE format

SupportedTarget(format) ==
  format \in {"png", "jpeg", "jpg", "webp", "avif", "tiff", "tif", "bmp",
              "gif", "heic", "heif", "psd", "ico"}

\* the subtype of the Content-Type header of a 200 answer
ContentType(format) ==
  IF ActualFormat(format) = "jpg" THEN "jpeg" ELSE ActualFormat(format)

\* status of the answer; sharpOk says whether the library could convert
EndpointStatus(format, sharpOk) ==
  IF ~SupportedTarget(format) THEN 400
  ELSE IF sharpOk THEN 200 ELSE 500

\* the three versions of the endpoint
Versions == {"route.ts", "part_003", "part_004"}

\* `50 * 1024 * 1024`, the size limit of part_003 and part_004
MaxFileSize == 50 * 1024 * 1024

\* what sharp throws when it reads the bytes of the file ("none": it reads
\* them); the first two are the messages the catch blocks look for
SharpErrors ==
  {"Input file contains unsupported image format",
   "Input image exceeds pixel limit",
   "Input buffer has corrupt header"}

\* the files a request carries: small, at the limit and over it, readable
\* by sharp or not
Files ==
  {NoFile} \cup
  [present : {TRUE}, size : {1, MaxFileSize, MaxFileSize + 1},
   thrown : {"none"} \cup SharpErrors]

\* the format field: missing, supported (in either case), unsupported
FormatFields == {"", "png", "PNG", "gif", "heic", "ico", "xyz"}

Requests == [version : Versions, file : Files, format : FormatFields]

\* targetFormat.toLowerCase(), on the format fields above
ToLowerCase(format) == IF format = "PNG" THEN "png" ELSE format

\* POST of route.ts: both fields are checked, then the switch on the format
\* runs, and sharp reads the file inside the case of a supported format
POST_route(req) ==
  IF ~req.file.present THEN 400
  ELSE IF req.format = "" THEN 400
  ELSE EndpointStatus(ToLowerCase(req.format), req.file.thrown = "none")

\* the catch block of part_003 and part_004
CatchStatus(message) ==
  IF message = "Input file contains unsupported image format" THEN 400
  ELSE IF message = "Input image exceeds pixel limit" THEN 413
  ELSE 500

\* POST of part_003: the size is checked after the two fields, and
\* `await sharpInstance.metadata()` reads the file before the switch on the
\* format is reached
POST_part_003(req) ==
  IF ~req.file.present THEN 400
  ELSE IF req.format = "" THEN 400
  ELSE IF req.file.size > MaxFileSize THEN 413
  ELSE IF req.file.thrown # "none" THEN CatchStatus(req.file.thrown)
  ELSE IF ~SupportedTarget(ToLowerCase(req.format)) THEN 400
  ELSE 200

\* POST of part_004: the checks of part_003 in the same order (the two
\* versions differ in the encoder options of the supported formats)
POST_part_004(req) ==
  IF ~req.file.present THEN 400
  ELSE IF req.format = "" THEN 400
  ELSE IF req.file.size > MaxFileSize THEN 413
  ELSE IF req.file.thrown # "none" THEN CatchStatus(req.file.thrown)
  ELSE IF ~SupportedTarget(ToLowerCase(req.format)) THEN 400
  ELSE 200

\* whether POST hands the bytes of the file to sharp: route.ts inside the
\* case of a supported format, part_003 and part_004 (sharp(buffer, ...) and
\* metadata()) once the two fields and the size have passed
SharpReads(req) ==
  /\ req.file.present
  /\ req.format # ""
  /\ IF req.version = "route.ts"
       THEN SupportedTarget(ToLowerCase(req.format))
       ELSE req.file.size <= MaxFileSize

\* actualFormat at the end of the switch: route.ts writes png for bmp, psd
\* and ico; part_003 and part_004 write png for gif too; every other case
\* leaves `let actualFormat = targetFormat` alone
ActualFormatOf(req) ==
  LET format == ToLowerCase(req.format)
  IN IF req.version = "route.ts"
       THEN IF format \in {"bmp", "psd", "ico"} THEN "png" ELSE req.format
       ELSE IF format \in {"bmp", "gif", "psd", "ico"} THEN "png"
            ELSE req.format

\* the subtype of the Content-Type header of the answer to req
ContentTypeOf(req) ==
  IF ActualFormatOf(req) \in {"jpg", "jpeg"} THEN "jpeg"
  ELSE ActualFormatOf(req)

\* the extension of the filename of the Content-Disposition header:
\* `${nameWithoutExt}.${actualFormat}`
DispositionExtension(req) == ActualFormatOf(req)

\* originalName.substring(0, originalName.lastIndexOf('.')) || originalName
\* followed by `.${actualFormat}`: a name without a dot, or with nothing
\* before its only dot, is kept whole
Filename(name, actualFormat) ==
  LET nameWithoutExt == SubSeq(name, 1, Len(name) - 1)
  IN IF Len(name) < 2 \/ nameWithoutExt = << "" >>
       THEN name \o << actualFormat >>
       ELSE nameWithoutExt \o << actualFormat >>

\* a client posts a form to one version of the endpoint
send(req) ==
  /\ request = NoRequest \/ response # NoResponse
  /\ request' = req
  /\ response' = NoResponse
  /\ UNCHANGED << pipeline, selectedFiles, fileStates, isConverting,
                  conversionResults, uiVars, engineVars, runVars, archive >>

\* the endpoint answers the request
POST ==
  /\ request # NoRequest
  /\ response = NoResponse
  /\ response' = CASE request.version = "route.ts" -> POST_route(request)
                  [] request.version = "part_003" -> POST_part_003(request)
                  [] request.version = "part_004" -> POST_part_004(request)
  /\ UNCHANGED << pipeline, request, selectedFiles, fileStates, isConverting,
                  conversionResults, uiVars, engineVars, runVars, archive >>

\* ------------------------------------------------------------ the adapters
\* convertSingleImage: the multipart form it posts
FormData(c, i) ==
  [file |-> c.fileStates[i], format |-> c.targetFormat, quality |-> c.quality]

\* convertSingleImage: the ConversionResult it returns for a 200 answer
ImageResult(c, i, run, type) ==
  [originalName |-> c.fileStates[i],
   convertedName |-> << c.fileStates[i][1], c.targetFormat >>,
   blob |-> [run |-> run, idx |-> i, type |-> type]]

\* buildArgs: the argument vector handed to ffmpeg.exec
buildArgs(c, inputName, outputName) ==
  LET codec == CASE c.targetFormat = "mp3" -> "libmp3lame"
                 [] c.targetFormat = "wav" -> "pcm_s16le"
                 [] c.targetFormat = "ogg" -> "libopus"
                 [] c.targetFormat = "flac" -> "flac"
                 [] c.targetFormat = "m4a" -> "aac"
                 [] OTHER -> "libmp3lame"
      rate == IF c.targetFormat \in {"wav", "flac"} THEN 0 ELSE c.bitrateKbps
  IN [i |-> inputName, ar |-> c.sampleRate, ac |-> c.channels, codec |-> codec,
      bitrate |-> rate, out |-> outputName]

NoArgs == [i |-> 0, ar |-> 0, ac |-> 0, codec |-> "none", bitrate |-> 0,
           out |-> << 0, "none" >>]

\* name.replace(/\.[^.]+$/, ''): the name without its last extension
Stem(name) ==
  IF Len(name) >= 2 /\ name[Len(name)] # "" THEN SubSeq(name, 1, Len(name) - 1)
  ELSE name

\* convertSingle: the ConversionResult it returns when the codec succeeded
AudioResult(c, i, run) ==
  [originalName |-> c.fileStates[i],
   convertedName |-> Stem(c.fileStates[i]) \o << c.targetFormat >>,
   blob |-> [run |-> run, idx |-> i,
             type |-> IF c.targetFormat = "m4a" THEN "mp4" ELSE c.targetFormat]]

\* -------------------------------------------------------- the orchestrator
\* what convertImages / convertAll read from the render they were called in
Capture ==
  [fileStates |-> [i \in 1..Len(fileStates) |-> fileStates[i].file],
   targetFormat |-> targetFormat, quality |-> quality,
   bitrateKbps |-> bitrateKbps, sampleRate |-> sampleRate,
   channels |-> channels, maxConcurrent |-> maxConcurrent]

\* a chunk that takes every remaining task: slice(i) without its end
ChunkIndices_unbounded(c, start) ==
  {i \in 1..Len(c.fileStates) : start <= i}

\* chunks that overlap by one task: slice(i - 1, i + maxConcurrent)
ChunkIndices_overlapping(c, start) ==
  {i \in 1..Len(c.fileStates) : start - 1 <= i /\ i < start + c.maxConcurrent}

\* fileStates.slice(i, i + maxConcurrent), as the indices of its elements
ChunkIndices(c, start) ==
  {i \in 1..Len(c.fileStates) : start <= i /\ i < start + c.maxConcurrent}

\* a reset that sets the status only
ResetStates_statusOnly(fs) ==
  [i \in 1..Len(fs) |-> [fs[i] EXCEPT !.status = "pending"]]

\* setFileStates(prev => prev.map(... status: 'pending' ...)) of a new run
ResetStates(fs) ==
  [i \in 1..Len(fs) |->
     [fs[i] EXCEPT !.status = "pending", !.result = NoResult,
                   !.error = NoError,
                   !.progress = IF pipeline = "audio" THEN 0 ELSE @]]

\* a run that dispatches a chunk without marking it
MarkConverting_none(fs, indices) == fs

\* setFileStates(prev => prev.map(... chunkIndices.includes(index) ...))
MarkConverting(fs, indices) ==
  [i \in 1..Len(fs) |->
     IF i \in indices
       THEN [fs[i] EXCEPT !.status = "converting",
                          !.progress = IF pipeline = "audio" THEN 0 ELSE @]
       ELSE fs[i]]

\* an update that sets the status and forgets the result
MarkCompleted_noResult(fs, globalIndex, result) ==
  [i \in 1..Len(fs) |->
     IF i = globalIndex THEN [fs[i] EXCEPT !.status = "completed"] ELSE fs[i]]

\* a chunk promise that returns its result without updating the task, the
\* list being left to whoever publishes the results
MarkCompleted_notYet(fs, globalIndex, result) == fs

\* an update that attaches every result to the first task of the list
MarkCompleted_firstTask(fs, globalIndex, result) ==
  [i \in 1..Len(fs) |->
     IF i = 1
       THEN [fs[i] EXCEPT !.status = "completed", !.result = result,
                          !.progress = IF pipeline = "audio" THEN 100 ELSE @]
       ELSE fs[i]]

\* an update whose index test is `i >= globalIndex`
MarkCompleted_onward(fs, globalIndex, result) ==
  [i \in 1..Len(fs) |->
     IF i >= globalIndex
       THEN [fs[i] EXCEPT !.status = "completed", !.result = result,
                          !.progress = IF pipeline = "audio" THEN 100 ELSE @]
       ELSE fs[i]]

\* the update of the task whose call returned a result
MarkCompleted(fs, globalIndex, result) ==
  [i \in 1..Len(fs) |->
     IF i = globalIndex
       THEN [fs[i] EXCEPT !.status = "completed", !.result = result,
                          !.progress = IF pipeline = "audio" THEN 100 ELSE @]
       ELSE fs[i]]

\* a catch block that records the message but leaves the status alone
MarkError_keepsStatus(fs, globalIndex, message) ==
  [i \in 1..Len(fs) |->
     IF i = globalIndex
       THEN [fs[i] EXCEPT !.error = message] ELSE fs[i]]

\* a catch block whose update lost its index test
MarkError_everyTask(fs, globalIndex, message) ==
  [i \in 1..Len(fs) |->
     [fs[i] EXCEPT !.status = "error", !.error = message,
                   !.progress = IF pipeline = "audio" THEN 0 ELSE @]]

\* a catch block that leaves the progress where the heartbeat took it
MarkError_keepProgress(fs, globalIndex, message) ==
  [i \in 1..Len(fs) |->
     IF i = globalIndex
       THEN [fs[i] EXCEPT !.status = "error", !.error = message]
       ELSE fs[i]]

\* the update of the task whose call threw
MarkError(fs, globalIndex, message) ==
  [i \in 1..Len(fs) |->
     IF i = globalIndex
       THEN [fs[i] EXCEPT !.status = "error", !.error = message,
                          !.progress = IF pipeline = "audio" THEN 0 ELSE @]
       ELSE fs[i]]

\* a dispatch that reads the settings of the latest render, not those of the
\* render the run was started in
StartPromise_liveSettings(c, i, ref, run) ==
  LET live == [c EXCEPT !.targetFormat = targetFormat, !.quality = quality,
                        !.bitrateKbps = bitrateKbps,
                        !.sampleRate = sampleRate, !.channels = channels]
  IN IF pipeline = "image"
       THEN [stage |-> "fetch", req |-> FormData(live, i),
             value |-> NoResult, engine |-> NoEngine]
       ELSE IF ref = NoEngine
         THEN [stage |-> "load", req |-> NoArgs, value |-> NoResult,
               engine |-> << run, i >>]
         ELSE [stage |-> "codec",
               req |-> buildArgs(live, i, << i, live.targetFormat >>),
               value |-> NoResult, engine |-> ref]

\* the promise of one chunk element right after chunk.map started it:
\* convertSingleImage has posted its form; convertSingle is inside
\* ensureFFmpeg, awaiting load() of the engine it constructed because
\* ffmpegRef.current was null, or at the codec otherwise
StartPromise(c, i, ref, run) ==
  IF pipeline = "image"
    THEN [stage |-> "fetch", req |-> FormData(c, i), value |-> NoResult,
          engine |-> NoEngine]
    ELSE IF ref = NoEngine
      THEN [stage |-> "load", req |-> NoArgs, value |-> NoResult,
            engine |-> << run, i >>]
      ELSE [stage |-> "codec",
            req |-> buildArgs(c, i, << i, c.targetFormat >>),
            value |-> NoResult, engine |-> ref]

\* a chunk awaited with Promise.race: the first settled promise ends it
Settled_any(p) == \E i \in DOMAIN p : p[i].stage \in {"resolved", "rejected"}

\* `await Promise.all(chunkPromises)` can continue: every promise of the
\* chunk has settled (none rejects, each catches its own failure)
Settled(p) == \A i \in DOMAIN p : p[i].stage \in {"resolved", "rejected"}

\* results pushed as their calls return: the calls already logged in
\* outcome first, the call that is returning now last
ValidResults_arrivalOrder(p, start) ==
  LET logged == SelectSeq(outcome, LAMBDA o : o.idx \in DOMAIN p /\ o.res = "ok")
      last == {i \in DOMAIN p :
                 /\ p[i].stage = "resolved"
                 /\ \A k \in 1..Len(outcome) : outcome[k].idx # i}
  IN [k \in 1..Len(logged) |-> p[logged[k].idx].value]
       \o (IF last = {} THEN << >> ELSE << p[CHOOSE i \in last : TRUE].value >>)

\* chunkResults.filter(result => result !== null), in chunk order
ValidResults(p, start) ==
  LET n == Cardinality(DOMAIN p)
      chunkResults == [k \in 1..n |-> p[start + k - 1]]
      valid == SelectSeq(chunkResults, LAMBDA r : r.stage = "resolved")
  IN [k \in 1..Len(valid) |-> valid[k].value]

\* one iteration of `for (const chunk of chunks)` up to its await; cl is the
\* invocation count so far
LaunchChunk(c, fs, start, results, ref, run, cl) ==
  LET indices == ChunkIndices(c, start) IN
  /\ fileStates' = MarkConverting(fs, indices)
  /\ chunkStart' = start
  /\ allResults' = results
  /\ promises' = [i \in indices |-> StartPromise(c, i, ref, run)]
  /\ calls' = [i \in DOMAIN cl |->
                IF i \in indices THEN cl[i] + 1 ELSE cl[i]]

\* after the last chunk: setConversionResults(allResults), then finally
FinishRun(fs, results) ==
  /\ fileStates' = fs
  /\ conversionResults' = results
  /\ isConverting' = FALSE
  /\ closure' = NoClosure
  /\ chunkStart' = 0
  /\ allResults' = << >>
  /\ promises' = << >>
  /\ UNCHANGED calls

\* the continuation of `await Promise.all(chunkPromises)` once promise i
\* has settled: fs and p are the task list and the chunk after that settling
Continue(fs, p, ref) ==
  IF ~Settled(p)
    THEN /\ fileStates' = fs
         /\ promises' = p
         /\ UNCHANGED << isConverting, conversionResults, closure, chunkStart,
                         allResults, calls >>
    ELSE LET results == allResults \o ValidResults(p, chunkStart)
             next == chunkStart + closure.maxConcurrent
         IN IF next <= Len(closure.fileStates)
              THEN /\ LaunchChunk(closure, fs, next, results, ref, runs,
                                  calls)
                   /\ UNCHANGED << isConverting, conversionResults, closure >>
              ELSE FinishRun(fs, results)

\* a handler that has lost its early return
EmptyBatch_never == FALSE

\* `if (selectedFiles.length === 0) return` / `if (fileStates.length === 0)`
EmptyBatch ==
  IF pipeline = "audio" THEN Len(fileStates) = 0 ELSE Len(selectedFiles) = 0

\* convertImages (part_000) and convertAll (AudioConverter): the click on the
\* convert button, which is disabled while isConverting
StartRun ==
  /\ ~isConverting
  /\ IF EmptyBatch
       THEN UNCHANGED << fileStates, isConverting, conversionResults,
                         closure, chunkStart, allResults, promises, calls,
                         outcome, runs >>
       ELSE /\ isConverting' = TRUE
            /\ conversionResults' = << >>
            /\ closure' = Capture
            /\ runs' = runs + 1
            /\ outcome' = << >>
            /\ LaunchChunk(Capture, ResetStates(fileStates), 1, << >>,
                           ffmpegRef, runs + 1,
                           [i \in 1..Len(fileStates) |-> 0])
  /\ UNCHANGED << pipeline, selectedFiles, uiVars, engineVars, endpointVars,
                  archive >>

convertImages == pipeline = "image" /\ StartRun

convertAll == pipeline = "audio" /\ StartRun

\* ------------------------------------------------- adapter calls returning
Awaiting(i, stage) == i \in DOMAIN promises /\ promises[i].stage = stage

Resolve(i, result) ==
  [promises EXCEPT ![i].stage = "resolved", ![i].value = result]

Reject(i) == [promises EXCEPT ![i].stage = "rejected"]

\* the HTTP exchange of convertSingleImage ends (`await fetch`, then
\* `await response.blob()`; nothing of the component changes between the
\* two): answer is "response" when the endpoint answered, with sharpOk the
\* library's verdict, and "network" when fetch or the body read rejected
fetchReturns(i, answer, sharpOk) ==
  /\ pipeline = "image"
  /\ Awaiting(i, "fetch")
  /\ IF answer = "response"
          /\ EndpointStatus(promises[i].req.format, sharpOk) = 200
       THEN LET type == ContentType(promises[i].req.format)
                result == ImageResult(closure, i, runs, type)
            IN /\ outcome' = Append(outcome, [idx |-> i, res |-> "ok"])
               /\ Continue(MarkCompleted(fileStates, i, result),
                           Resolve(i, result), ffmpegRef)
       ELSE \* `throw new Error(...)` or the TypeError of fetch, caught by
            \* the chunk promise
            /\ outcome' = Append(outcome, [idx |-> i, res |-> "fail"])
            /\ Continue(MarkError(fileStates, i,
                                  IF answer = "response"
                                    THEN "Failed to convert"
                                    ELSE "Failed to fetch"),
                        Reject(i), ffmpegRef)
  /\ UNCHANGED << pipeline, selectedFiles, uiVars, engineVars, endpointVars,
                  runs, archive >>

\* ensureFFmpeg after `await ffmpeg.load()`: the engine this call built is
\* published in ffmpegRef; convertSingle reads it back and goes to the codec
loadResolves(i) ==
  /\ pipeline = "audio"
  /\ Awaiting(i, "load")
  /\ ffmpegRef' = promises[i].engine
  /\ enginesLoaded' = enginesLoaded + 1
  /\ promises' = [promises EXCEPT
                   ![i].stage = "codec",
                   ![i].req = buildArgs(closure, i,
                                        << i, closure.targetFormat >>)]
  /\ UNCHANGED << pipeline, endpointVars, selectedFiles, fileStates,
                  isConverting, conversionResults, uiVars, closure,
                  chunkStart, allResults, calls, outcome, runs, archive,
                  engineFS >>

\* ffmpeg.load() rejects: ensureFFmpeg throws, convertSingle rejects
loadRejects(i) ==
  /\ pipeline = "audio"
  /\ Awaiting(i, "load")
  /\ outcome' = Append(outcome, [idx |-> i, res |-> "fail"])
  /\ Continue(MarkError(fileStates, i, "load failed"), Reject(i), ffmpegRef)
  /\ UNCHANGED << pipeline, selectedFiles, uiVars, engineVars, endpointVars,
                  runs, archive >>

\* the engine section of convertSingle (writeFile, exec, readFile) ends:
\* with the output bytes (ok) or with an exception
codecReturns(i, ok) ==
  /\ pipeline = "audio"
  /\ Awaiting(i, "codec")
  /\ IF ok
       THEN LET result == AudioResult(closure, i, runs) IN
            /\ outcome' = Append(outcome, [idx |-> i, res |-> "ok"])
            /\ Continue(MarkCompleted(fileStates, i, result),
                        Resolve(i, result), ffmpegRef)
       ELSE /\ outcome' = Append(outcome, [idx |-> i, res |-> "fail"])
            /\ Continue(MarkError(fileStates, i, "exec failed"), Reject(i),
                        ffmpegRef)
  /\ UNCHANGED << pipeline, selectedFiles, uiVars, engineVars, endpointVars,
                  runs, archive >>

\* The transport or the codec of call i will never answer.  Neither
\* convertSingleImage (fetch without signal or timer) nor convertSingle sets
\* a limit of its own, so the call stays pending.
neverReturns(i) ==
  /\ Awaiting(i, "fetch") \/ Awaiting(i, "load") \/ Awaiting(i, "codec")
  /\ \A j \in DOMAIN promises : promises[j].stage # "hung"
  /\ promises' = [promises EXCEPT ![i].stage = "hung"]
  /\ UNCHANGED << pipeline, endpointVars, selectedFiles, fileStates,
                  isConverting, conversionResults, uiVars, engineVars,
                  closure, chunkStart, allResults, calls, outcome, runs,
                  archive >>

\* ---------------------------------- the engine section, await by await
\* The three awaits of the try block of convertSingle one by one, with the
\* engine's file system (codecReturns is the same section in one step, its
\* outcome left open).  Nothing in convertSingle deletes a file of the
\* engine, so input_<i> and output_<i>.<format> stay where they are.
OutputFile(i) == << promises[i].engine, promises[i].req.out >>

\* `await ffmpeg.exec(args)` resolves with the exit code, which convertSingle
\* drops: code is 0 (the output was written) or 1 (an error or the timeout;
\* wrote says whether ffmpeg had created the output file by then)
execReturns(i, code, wrote) ==
  /\ pipeline = "audio"
  /\ Awaiting(i, "codec")
  /\ code \in {0, 1}
  /\ code = 0 => wrote
  /\ engineFS' = IF wrote THEN engineFS \cup {OutputFile(i)} ELSE engineFS
  /\ promises' = [promises EXCEPT
                   ![i].stage = IF code = 0 THEN "readFile"
                                ELSE "readFileAfterFailure"]
  /\ UNCHANGED << pipeline, endpointVars, selectedFiles, fileStates,
                  isConverting, conversionResults, uiVars, ffmpegRef,
                  enginesLoaded, closure, chunkStart, allResults, calls,
                  outcome, runs, archive >>

AtReadFile(i) ==
  Awaiting(i, "readFile") \/ Awaiting(i, "readFileAfterFailure")

\* `await ffmpeg.readFile(outputName)` returns the bytes of the file of
\* that name or throws when the engine has none
readFileReturns(i) ==
  /\ pipeline = "audio"
  /\ AtReadFile(i)
  /\ IF OutputFile(i) \in engineFS
       THEN LET result == AudioResult(closure, i, runs) IN
            /\ outcome' = Append(outcome, [idx |-> i, res |-> "ok"])
            /\ Continue(MarkCompleted(fileStates, i, result),
                        Resolve(i, result), ffmpegRef)
       ELSE /\ outcome' = Append(outcome, [idx |-> i, res |-> "fail"])
            /\ Continue(MarkError(fileStates, i, "readFile failed"),
                        Reject(i), ffmpegRef)
  /\ UNCHANGED << pipeline, selectedFiles, uiVars, engineVars, endpointVars,
                  runs, archive >>

\* ------------------------- the converter of components/ImageConverter.tsx
\* It keeps selectedFiles and no task list, and converts the files one after
\* another.  Its loop position is chunkStart, its local `results` is
\* allResults, the fetch it awaits is the one promise of promises.
onDropSequential(file) ==
  /\ pipeline = "simple"
  /\ IF Accepted(file)
       THEN selectedFiles' = Append(selectedFiles, file)
       ELSE UNCHANGED selectedFiles
  /\ UNCHANGED << pipeline, endpointVars, fileStates, isConverting,
                  conversionResults, uiVars, engineVars, runVars, archive >>

\* the remove and clear buttons are enabled during a conversion too
removeFileSequential(index) ==
  /\ pipeline = "simple"
  /\ index \in 1..Len(selectedFiles)
  /\ selectedFiles' = RemoveAt(selectedFiles, index)
  /\ UNCHANGED << pipeline, endpointVars, fileStates, isConverting,
                  conversionResults, uiVars, engineVars, runVars, archive >>

clearAllFilesSequential ==
  /\ pipeline = "simple"
  /\ Len(selectedFiles) > 0
  /\ selectedFiles' = << >>
  /\ conversionResults' = << >>
  /\ UNCHANGED << pipeline, endpointVars, fileStates, isConverting, uiVars,
                  engineVars, runVars, archive >>

CaptureSequential ==
  [NoClosure EXCEPT !.fileStates = selectedFiles,
                    !.targetFormat = targetFormat, !.quality = quality]

\* the body of `for (const file of selectedFiles)` up to `await fetch`
PostSequential(c, i) ==
  [k \in {i} |-> [stage |-> "fetch", req |-> FormData(c, k),
                  value |-> NoResult, engine |-> NoEngine]]

\* `finally { setIsConverting(false) }` and the end of the call
EndSequential ==
  /\ isConverting' = FALSE
  /\ closure' = NoClosure
  /\ chunkStart' = 0
  /\ allResults' = << >>
  /\ promises' = << >>
  /\ UNCHANGED calls

\* convertImages: the click on the convert button (disabled while
\* isConverting), up to the first `await fetch`
convertImagesSequential ==
  /\ pipeline = "simple"
  /\ ~isConverting
  /\ IF EmptyBatch
       THEN UNCHANGED << isConverting, conversionResults, closure,
                         chunkStart, allResults, promises, calls, outcome,
                         runs >>
       ELSE /\ runs' = runs + 1
            /\ outcome' = << >>
            /\ IF Len(selectedFiles) = 0
                 \* a loop over no file publishes `results` at once
                 THEN /\ conversionResults' = << >>
                      /\ EndSequential
                 ELSE /\ isConverting' = TRUE
                      /\ closure' = CaptureSequential
                      /\ chunkStart' = 1
                      /\ allResults' = << >>
                      /\ promises' = PostSequential(CaptureSequential, 1)
                      /\ calls' = [i \in 1..Len(selectedFiles) |->
                                    IF i = 1 THEN 1 ELSE 0]
                      /\ UNCHANGED conversionResults
  /\ UNCHANGED << pipeline, endpointVars, selectedFiles, fileStates, uiVars,
                  engineVars, archive >>

\* the HTTP exchange of file i ends: with an ok response the result is
\* pushed and the loop goes on (after the last file the results are
\* published); otherwise the loop is left through `catch`, which alerts
fetchReturnsSequential(i, answer, sharpOk) ==
  /\ pipeline = "simple"
  /\ Awaiting(i, "fetch")
  /\ IF answer = "response"
          /\ EndpointStatus(promises[i].req.format, sharpOk) = 200
       THEN LET type == ContentType(promises[i].req.format)
                results == Append(allResults,
                                  ImageResult(closure, i, runs, type))
            IN /\ outcome' = Append(outcome, [idx |-> i, res |-> "ok"])
               /\ IF i < Len(closure.fileStates)
                    THEN /\ chunkStart' = i + 1
                         /\ allResults' = results
                         /\ promises' = PostSequential(closure, i + 1)
                         /\ calls' = [calls EXCEPT ![i + 1] = @ + 1]
                         /\ UNCHANGED << isConverting, conversionResults,
                                         closure >>
                    ELSE /\ conversionResults' = results
                         /\ EndSequential
       ELSE /\ outcome' = Append(outcome, [idx |-> i, res |-> "fail"])
            /\ EndSequential
            /\ UNCHANGED conversionResults
  /\ UNCHANGED << pipeline, endpointVars, selectedFiles, fileStates, uiVars,
                  engineVars, runs, archive >>

\* -------------------------------------------------------------- archive
\* JSZip.file(name, data): the entry of that name is created or replaced
ZipFile(zip, name, data) ==
  IF \E k \in 1..Len(zip) : zip[k].name = name
    THEN [k \in 1..Len(zip) |->
            IF zip[k].name = name THEN [name |-> name, data |-> data]
            ELSE zip[k]]
    ELSE Append(zip, [name |-> name, data |-> data])

RECURSIVE ZipAll(_, _)
\* `for (const result of conversionResults) zip.file(...)` on zip
ZipAll(zip, results) ==
  IF results = << >> THEN zip
  ELSE ZipAll(ZipFile(zip, Head(results).convertedName, Head(results).blob),
              Tail(results))

\* the download-all button, up to `await zip.generateAsync(...)`
downloadAll ==
  /\ archive = << >>
  /\ Len(conversionResults) > 1    \* the button is rendered for 2 or more
  /\ Len(conversionResults) # 0    \* `if (... === 0) return`
  /\ archive' = ZipAll(<< >>, conversionResults)
  /\ UNCHANGED << pipeline, endpointVars, selectedFiles, fileStates,
                  isConverting, conversionResults, uiVars, engineVars,
                  runVars >>

\* generateAsync resolves: the zip is handed to the browser as a download
\* and its object URL is revoked
zipGenerated ==
  /\ archive # << >>
  /\ archive' = << >>
  /\ UNCHANGED << pipeline, endpointVars, selectedFiles, fileStates,
                  isConverting, conversionResults, uiVars, engineVars,
                  runVars >>

\* ------------------------------------------------------------ specification
\* a change of a setting, counted
Edit(A) == edits < MaxEdits /\ edits' = edits + 1 /\ A

\* the settling of one awaited call of task i
Returns(i) ==
  \/ \E sharpOk \in BOOLEAN : fetchReturns(i, "response", sharpOk)
  \/ fetchReturns(i, "network", FALSE)
  \/ loadResolves(i)
  \/ loadRejects(i)
  \/ \E ok \in BOOLEAN : codecReturns(i, ok)

\* no archive is being generated
Idle == archive = << >>

\* Every handler and every settling of an awaited call.  zip.generateAsync
\* reads and writes nothing of the component, so its completion commutes
\* with every handler; it is scheduled before them.
Next ==
  \/ zipGenerated /\ UNCHANGED observers
  \/ \E file \in Offered : Idle /\ Len(fileStates) < MaxFiles /\ onDrop(file)
       /\ UNCHANGED observers
  \/ \E index \in 1..MaxFiles : Idle /\ removeFile(index)
       /\ UNCHANGED observers
  \/ Idle /\ clearAllFiles /\ UNCHANGED observers
  \/ \E f \in ImageFormats \cup AudioFormats :
       Idle /\ Edit(setTargetFormat(f)) /\ UNCHANGED observers
  \/ \E q \in Qualities : Idle /\ Edit(setQuality(q)) /\ UNCHANGED observers
  \/ \E b \in Bitrates : Idle /\ Edit(setBitrateKbps(b))
       /\ UNCHANGED observers
  \/ \E r \in SampleRates : Idle /\ Edit(setSampleRate(r))
       /\ UNCHANGED observers
  \/ \E c \in ChannelCounts : Idle /\ Edit(setChannels(c))
       /\ UNCHANGED observers
  \/ \E w \in 1..MaxWindow : Idle /\ Edit(setMaxConcurrent(w))
       /\ UNCHANGED observers
  \/ Idle /\ runs < MaxRuns /\ convertImages /\ UNCHANGED observers
  \/ Idle /\ runs < MaxRuns /\ convertAll /\ UNCHANGED observers
  \/ \E i \in 1..MaxFiles : Idle /\ Returns(i) /\ UNCHANGED observers
  \/ downloadAll /\ UNCHANGED observers

Spec == Init /\ [][Next]_vars

\* The windowing scenario: one run over a longer task list, with drops and
\* moves of the concurrency slider at any time, and nothing else.
NextWindows ==
  \/ \E file \in Offered : Len(fileStates) < MaxBatch /\ onDrop(file)
       /\ UNCHANGED observers
  \/ \E w \in 1..MaxWindow : setMaxConcurrent(w) /\ UNCHANGED edits
       /\ UNCHANGED observers
  \/ runs < WindowRuns /\ convertImages /\ UNCHANGED observers
  \/ runs < WindowRuns /\ convertAll /\ UNCHANGED observers
  \/ \E i \in 1..MaxBatch : Returns(i) /\ UNCHANGED observers

SpecWindows == Init /\ [][NextWindows]_vars

\* The re-run scenario: runs one after another over a task list that is
\* extended, shortened or cleared between them, the settings left alone.
NextReruns ==
  \/ \E file \in Offered : Len(fileStates) < MaxFiles /\ onDrop(file)
       /\ UNCHANGED observers
  \/ \E index \in 1..MaxFiles : removeFile(index) /\ UNCHANGED observers
  \/ clearAllFiles /\ UNCHANGED observers
  \/ runs < MaxReruns /\ convertImages /\ UNCHANGED observers
  \/ runs < MaxReruns /\ convertAll /\ UNCHANGED observers
  \/ \E i \in 1..MaxFiles : Returns(i) /\ UNCHANGED observers

SpecReruns == Init /\ [][NextReruns]_vars

\* The settings scenario: files of one name, the format and the codec
\* options changed and the concurrency slider moved at any time, before a
\* run and while it is in progress.
NextSettings ==
  \/ \E file \in SettingsFileNames :
       Len(fileStates) < MaxFiles /\ onDrop(file) /\ UNCHANGED observers
  \/ \E f \in ImageFormats \cup AudioFormats : Edit(setTargetFormat(f))
       /\ UNCHANGED observers
  \/ \E q \in Qualities : Edit(setQuality(q)) /\ UNCHANGED observers
  \/ \E b \in Bitrates : Edit(setBitrateKbps(b)) /\ UNCHANGED observers
  \/ \E r \in SampleRates : Edit(setSampleRate(r)) /\ UNCHANGED observers
  \/ \E c \in ChannelCounts : Edit(setChannels(c)) /\ UNCHANGED observers
  \/ \E w \in 1..MaxWindow : setMaxConcurrent(w) /\ UNCHANGED edits
       /\ UNCHANGED observers
  \/ runs < MaxRuns /\ convertImages /\ UNCHANGED observers
  \/ runs < MaxRuns /\ convertAll /\ UNCHANGED observers
  \/ \E i \in 1..MaxFiles : Returns(i) /\ UNCHANGED observers

SpecSettings == Init /\ [][NextSettings]_vars

\* The engine scenario: runs of the audio converter one after another on
\* the same engine, the engine section followed await by await.
NextEngine ==
  \/ \E file \in SettingsFileNames :
       Len(fileStates) < MaxFiles /\ onDrop(file) /\ UNCHANGED observers
  \/ runs < MaxReruns /\ convertAll /\ UNCHANGED observers
  \/ \E i \in 1..MaxFiles : loadResolves(i) /\ UNCHANGED observers
  \/ \E i \in 1..MaxFiles : loadRejects(i) /\ UNCHANGED observers
  \/ \E i \in 1..MaxFiles, code \in {0, 1}, wrote \in BOOLEAN :
       execReturns(i, code, wrote) /\ UNCHANGED observers
  \/ \E i \in 1..MaxFiles : codecReturns(i, FALSE) /\ UNCHANGED observers
  \/ \E i \in 1..MaxFiles : readFileReturns(i) /\ UNCHANGED observers

SpecEngine == Init /\ [][NextEngine]_vars

\* URL.createObjectURL(blob) of convertSingleImage / convertSingle: the step
\* in which the call of task i returns a result registers an object URL for
\* the blob of that result
createObjectURL(i) ==
  objectUrls' =
    IF fileStates'[i].result # NoResult
         /\ fileStates'[i].result # fileStates[i].result
      THEN objectUrls \cup {fileStates'[i].result.blob}
      ELSE objectUrls

\* The resource scenario: the object URLs of the results, over runs, removals
\* and clear-all.  No handler of the component calls URL.revokeObjectURL on
\* the URL of a result.
NextResources ==
  \/ \E file \in Offered : Len(fileStates) < MaxFiles /\ onDrop(file)
       /\ UNCHANGED observers
  \/ \E index \in 1..MaxFiles : removeFile(index) /\ UNCHANGED observers
  \/ clearAllFiles /\ UNCHANGED observers
  \/ runs < MaxReruns /\ convertImages /\ UNCHANGED observers
  \/ runs < MaxReruns /\ convertAll /\ UNCHANGED observers
  \/ \E i \in 1..MaxFiles :
       Returns(i) /\ createObjectURL(i)
       /\ UNCHANGED << clicks, progressVars >>

SpecResources == Init /\ [][NextResources]_vars

\* a click on the convert button, counted
Click(A) == clicks < MaxClicks /\ clicks' = clicks + 1 /\ A

\* The empty-batch scenario: the convert handler of each of the three
\* converters called at any time it can be, on an empty selection too.
NextClicks ==
  \/ \E file \in SettingsFileNames :
       Len(fileStates) < MaxFiles /\ onDrop(file) /\ UNCHANGED observers
  \/ \E index \in 1..MaxFiles : removeFile(index) /\ UNCHANGED observers
  \/ clearAllFiles /\ UNCHANGED observers
  \/ \E file \in SettingsFileNames :
       Len(selectedFiles) < MaxFiles /\ onDropSequential(file)
       /\ UNCHANGED observers
  \/ clearAllFilesSequential /\ UNCHANGED observers
  \/ Click(convertImages)
       /\ UNCHANGED << objectUrls, progressVars >>
  \/ Click(convertAll)
       /\ UNCHANGED << objectUrls, progressVars >>
  \/ Click(convertImagesSequential)
       /\ UNCHANGED << objectUrls, progressVars >>
  \/ \E i \in 1..MaxFiles : Returns(i) /\ UNCHANGED observers
  \/ \E i \in 1..MaxFiles, sharpOk \in BOOLEAN :
       fetchReturnsSequential(i, "response", sharpOk) /\ UNCHANGED observers

SpecClicks == InitAny /\ [][NextClicks]_vars

\* The naming scenario: one run over files whose names have one dot,
\* several dots or a leading dot
NextNames ==
  \/ \E file \in (IF pipeline = "audio" THEN DottedAudioNames
                   ELSE DottedImageNames) :
       Len(fileStates) < MaxFiles /\ onDrop(file) /\ UNCHANGED observers
  \/ \E f \in ImageFormats \cup AudioFormats :
       ~isConverting /\ setTargetFormat(f) /\ UNCHANGED edits
       /\ UNCHANGED observers
  \/ runs < WindowRuns /\ convertImages /\ UNCHANGED observers
  \/ runs < WindowRuns /\ convertAll /\ UNCHANGED observers
  \/ \E i \in 1..MaxFiles : Returns(i) /\ UNCHANGED observers

SpecNames == Init /\ [][NextNames]_vars

\* ------------------------------------------------ progress (audio pipeline)
\* the stages of a convertSingle call that is past `await ensureFFmpeg()`
\* and inside its try block
EngineStages == {"codec", "readFile", "readFileAfterFailure"}

InEngine(p, i) == i \in DOMAIN p /\ p[i].stage \in EngineStages

\* setInterval(..., 250): the calls that pass `await ensureFFmpeg()` in this
\* step
Started == {i \in DOMAIN promises' : InEngine(promises', i)
                                       /\ ~InEngine(promises, i)}

\* a convertSingle whose catch block forgets the timer
Cleared_successOnly(i, ok) == IF ok THEN {i} ELSE {}

\* clearInterval(progressInterval), before the progress: 100 update on the
\* success path and in the catch block on the failure path
Cleared(i, ok) == {i}

\* the timers after a step that cleared those of `cleared`
TrackTimers(cleared) ==
  /\ timers' = (timers \ cleared) \cup Started
  /\ UNCHANGED << objectUrls, clicks, ffmpegProgress >>

\* `Math.random() * 15 + 5`, in whole percent
Increments == {5, 15}

\* a heartbeat that takes a task at the cap for done
Heartbeat_completes(s, d) ==
  IF s.status = "converting"
    THEN IF s.progress + d >= 95
           THEN [s EXCEPT !.status = "completed", !.progress = 100]
           ELSE [s EXCEPT !.progress = @ + d]
    ELSE s

\* the updater of progressInterval, for the task of its index
Heartbeat(s, d) ==
  IF s.status = "converting"
    THEN [s EXCEPT !.progress = Min(95, @ + d)]
    ELSE s

\* a tick of the progressInterval of task i
tick(i, d) ==
  /\ pipeline = "audio"
  /\ i \in timers
  /\ i \in 1..Len(fileStates)
  /\ fileStates' = [fileStates EXCEPT ![i] = Heartbeat(@, d)]
  /\ UNCHANGED << pipeline, endpointVars, selectedFiles, isConverting,
                  conversionResults, uiVars, engineVars, runVars, archive,
                  observers >>

\* ffmpeg.on('progress', ...): an engine at work reports its progress
onProgress(progress) ==
  /\ pipeline = "audio"
  /\ \E i \in DOMAIN promises : InEngine(promises, i)
  /\ ffmpegProgress' = Min(99, progress)
  /\ UNCHANGED << pipeline, endpointVars, selectedFiles, fileStates,
                  isConverting, conversionResults, uiVars, engineVars,
                  runVars, archive, objectUrls, clicks, timers >>

\* the audio converter alone
InitAudio == pipeline = "audio" /\ InitialState

\* The progress scenario: runs of the audio converter with the heartbeat
\* timers and the engine's progress events
NextProgress ==
  \/ \E file \in SettingsFileNames :
       Len(fileStates) < MaxFiles /\ onDrop(file) /\ UNCHANGED observers
  \/ runs < MaxReruns /\ convertAll /\ TrackTimers({})
  \/ \E i \in 1..MaxFiles : loadResolves(i) /\ TrackTimers({})
  \/ \E i \in 1..MaxFiles : loadRejects(i) /\ TrackTimers({})
  \/ \E i \in 1..MaxFiles, ok \in BOOLEAN :
       codecReturns(i, ok) /\ TrackTimers(Cleared(i, ok))
  \/ \E i \in 1..MaxFiles, d \in Increments : tick(i, d)
  \/ \E progress \in {0, 50, 100} : onProgress(progress)

SpecProgress == InitAudio /\ [][NextProgress]_vars

\* The endpoint scenario: requests answered one after another
NextEndpoint ==
  \/ \E req \in Requests : send(req) /\ UNCHANGED observers
  \/ POST /\ UNCHANGED observers

SpecEndpoint == Init /\ [][NextEndpoint]_vars

\* The hanging-call scenario: one run in which at most one call never
\* returns.  Every other call returns sooner or later (the transport and the
\* codec answer or fail), which is the fairness of the specification.
ReturnsInTime(i) == Returns(i) /\ UNCHANGED observers

NextHang ==
  \/ \E file \in SettingsFileNames :
       Len(fileStates) < MaxBatch /\ onDrop(file) /\ UNCHANGED observers
  \/ runs < WindowRuns /\ convertImages /\ UNCHANGED observers
  \/ runs < WindowRuns /\ convertAll /\ UNCHANGED observers
  \/ \E i \in 1..MaxBatch : ReturnsInTime(i)
  \/ \E i \in 1..MaxBatch : neverReturns(i) /\ UNCHANGED observers

SpecHang ==
  /\ Init
  /\ [][NextHang]_vars
  /\ \A i \in 1..MaxBatch : WF_vars(ReturnsInTime(i))

\* The converter of components/ImageConverter.tsx: drops, removals, the
\* format select and runs.
NextSequential ==
  \/ \E file \in Offered :
       Len(selectedFiles) < MaxFiles /\ onDropSequential(file)
       /\ UNCHANGED observers
  \/ \E index \in 1..MaxFiles : removeFileSequential(index)
       /\ UNCHANGED observers
  \/ clearAllFilesSequential /\ UNCHANGED observers
  \/ \E f \in ImageFormats : Edit(setTargetFormat(f)) /\ UNCHANGED observers
  \/ runs < MaxReruns /\ convertImagesSequential /\ UNCHANGED observers
  \/ \E i \in 1..MaxFiles, sharpOk \in BOOLEAN :
       fetchReturnsSequential(i, "response", sharpOk) /\ UNCHANGED observers
  \/ \E i \in 1..MaxFiles :
       fetchReturnsSequential(i, "network", FALSE) /\ UNCHANGED observers

SpecSequential == InitSequential /\ [][NextSequential]_vars

TypeOK ==
  /\ pipeline # "simple" => Len(selectedFiles) = Len(fileStates)
  /\ isConverting \in BOOLEAN

\* ------------------------------------------------------------- properties
Batch == 1..Len(calls)       \* the tasks of the latest run (see removeFile)

WithStatus(st) == {i \in 1..Len(fileStates) : fileStates[i].status = st}

\* how the adapter call of task i ended in the latest run
OutcomeOf(i) ==
  IF \E k \in 1..Len(outcome) : outcome[k].idx = i
    THEN outcome[CHOOSE k \in 1..Len(outcome) : outcome[k].idx = i].res
    ELSE "none"

\* C1: in every reachable state the number of tasks whose status is
\* Converting is at most the window size W the run was started with (and no
\* task is Converting when no run is in progress); W is at most 6 for
\* convertImages and at most 3 for convertAll.
C1_ConvertingAtMostW ==
  /\ Cardinality(WithStatus("converting")) <=
       (IF isConverting THEN closure.maxConcurrent ELSE 0)
  /\ closure.maxConcurrent <= MaxConcurrentLimit

\* a run on more tasks than W: one task Converting, the other held back
C1_Witness ==
  /\ isConverting
  /\ closure.maxConcurrent = 1
  /\ Len(closure.fileStates) = 2
  /\ Cardinality(WithStatus("converting")) = 1
  /\ fileStates[2].status = "pending"

Terminal(i) == fileStates[i].status \in {"completed", "error"}

\* adapter calls of the running batch that have not returned yet, a load
\* of the codec engine counting as a call of its own
Outstanding ==
  (Len(calls) - Len(outcome))
    + Cardinality({i \in DOMAIN promises : promises[i].stage = "load"})

\* C2: a run ends when every adapter call returns, and at its end every task
\* of the batch is Completed or Error.  While a run is in progress some
\* adapter call is outstanding; every return of a call lowers the number of
\* outstanding calls and nothing raises it; at the step that ends the run
\* each of the N tasks of the batch is terminal and Completed count + Error
\* count = N.
C2_RunEndsAllTerminal ==
  /\ [](isConverting =>
          \E i \in DOMAIN promises :
             promises[i].stage \notin {"resolved", "rejected"})
  /\ [][/\ (isConverting /\ promises' # promises) => Outstanding' < Outstanding
        /\ (isConverting /\ isConverting') => Outstanding' <= Outstanding
        /\ (isConverting /\ ~isConverting') =>
             /\ \A i \in 1..Len(closure.fileStates) : Terminal(i)'
             /\ Cardinality(WithStatus("completed"))'
                  + Cardinality(WithStatus("error"))' = Len(closure.fileStates)
       ]_vars

\* a finished run of two tasks, one Completed and one Error
C2_Witness ==
  /\ ~isConverting
  /\ Len(outcome) = 2
  /\ Cardinality(WithStatus("completed")) = 1
  /\ Cardinality(WithStatus("error")) = 1

\* C3: the published result set lists the results in the submission order
\* of their tasks (increasing task index), whatever the order in which the
\* calls of a window returned, and holds one result per call that succeeded.
C3_ResultsInSubmissionOrder ==
  /\ \A k, l \in 1..Len(conversionResults) :
       k < l => conversionResults[k].blob.idx < conversionResults[l].blob.idx
  /\ (~isConverting /\ Len(calls) > 0) =>
       {conversionResults[k].blob.idx : k \in 1..Len(conversionResults)}
         = {i \in Batch : OutcomeOf(i) = "ok"}

\* task 2 returned before task 1 and the set still reads [task 1, task 2]
C3_Witness ==
  /\ ~isConverting
  /\ Len(outcome) = 2
  /\ outcome[1] = [idx |-> 2, res |-> "ok"]
  /\ outcome[2] = [idx |-> 1, res |-> "ok"]
  /\ Len(conversionResults) = 2
  /\ conversionResults[1].blob.idx = 1

\* C4: a failed call sets only its own task to Error: a task is Error
\* exactly when its own call failed and Completed exactly when its own call
\* succeeded, and at the end of the run the adapter has been invoked for
\* every task of the batch and every call has returned.
C4_FailureIsolated ==
  /\ \A i \in Batch :
       /\ fileStates[i].status = "error" <=> OutcomeOf(i) = "fail"
       /\ fileStates[i].status = "completed" <=> OutcomeOf(i) = "ok"
  /\ (~isConverting /\ Len(calls) > 0) =>
       \A j \in Batch : calls[j] >= 1 /\ OutcomeOf(j) # "none"

\* a batch of three: task 2 failed first, task 1 of the same window and
\* task 3 were still converted and are Completed
C4_Witness ==
  /\ ~isConverting
  /\ Len(calls) = 3
  /\ outcome = << [idx |-> 2, res |-> "fail"], [idx |-> 1, res |-> "ok"],
                  [idx |-> 3, res |-> "ok"] >>
  /\ fileStates[1].status = "completed"
  /\ fileStates[2].status = "error"
  /\ fileStates[3].status = "completed"

\* C5: a re-run leaks nothing of the previous run.  At the step that starts
\* a run the result set is empty and every task is without result and error,
\* Pending or (first window) Converting; afterwards a task of the batch has
\* a result only if its call of this run succeeded, the result being the one
\* that call produced, has an error only if its call of this run failed, and
\* the result set holds results of this run only.
C5_NoLeakAcrossRuns ==
  /\ [][(~isConverting /\ isConverting') =>
          /\ conversionResults' = << >>
          /\ \A i \in 1..Len(fileStates') :
               /\ fileStates'[i].status \in {"pending", "converting"}
               /\ fileStates'[i].result = NoResult
               /\ fileStates'[i].error = NoError
       ]_vars
  /\ [](\A i \in Batch :
          /\ fileStates[i].result # NoResult =>
               /\ OutcomeOf(i) = "ok"
               /\ fileStates[i].result.blob.run = runs
               /\ fileStates[i].result.blob.idx = i
          /\ fileStates[i].error # NoError => OutcomeOf(i) = "fail")
  /\ [](\A k \in 1..Len(conversionResults) :
          conversionResults[k].blob.run = runs)

\* the second run ended with task 1 Completed and task 2 Error
C5_Witness ==
  /\ ~isConverting
  /\ runs = 2
  /\ Len(outcome) = 2
  /\ fileStates[1].status = "completed"
  /\ fileStates[1].result.blob.run = 2
  /\ fileStates[2].status = "error"

\* C6: the archive built by downloadAll has exactly one entry per result of
\* the result set, each holding that result's bytes, also when two results
\* have the same convertedName.
C6_ArchiveOneEntryPerResult ==
  archive # << >> =>
    /\ Len(archive) = Len(conversionResults)
    /\ \A k \in 1..Len(archive) :
         archive[k].data = conversionResults[k].blob

\* C7: the extension of a result's convertedName in the image pipeline is
\* the format the endpoint declared for the payload (png when ico was asked
\* for), not the requested one.
C7_NameFollowsDeclaredFormat ==
  \A i \in 1..Len(fileStates) :
    (pipeline = "image" /\ fileStates[i].status = "completed") =>
      LET r == fileStates[i].result
      IN r.convertedName[Len(r.convertedName)] = r.blob.type

\* C8: at most one codec engine is ever constructed and loaded, and the
\* tasks that are at the codec at the same time use the same instance.
C8_SingleEngine ==
  /\ enginesLoaded <= 1
  /\ \A i, j \in DOMAIN promises :
       (promises[i].stage = "codec" /\ promises[j].stage = "codec") =>
         promises[i].engine = promises[j].engine

\* C9: a run uses the settings in effect when it started.  The step that
\* starts a run captures the current format, options and concurrency limit;
\* the captured values do not change while the run is in progress; every
\* request of the run carries the captured format and options, every chunk
\* has the captured size (or what is left of the batch), and every result
\* of the run is named with the captured format.
C9_SettingsReadAtRunStart ==
  /\ [][/\ (~isConverting /\ isConverting') =>
             /\ closure'.targetFormat = targetFormat
             /\ closure'.quality = quality
             /\ closure'.bitrateKbps = bitrateKbps
             /\ closure'.sampleRate = sampleRate
             /\ closure'.channels = channels
             /\ closure'.maxConcurrent = maxConcurrent
        /\ (isConverting /\ isConverting') => closure' = closure
       ]_vars
  /\ [](isConverting =>
          /\ \A i \in DOMAIN promises :
               LET req == promises[i].req IN
               /\ promises[i].stage = "fetch" =>
                    /\ req.format = closure.targetFormat
                    /\ req.quality = closure.quality
               /\ promises[i].stage = "codec" =>
                    /\ req.out = << i, closure.targetFormat >>
                    /\ req.ar = closure.sampleRate
                    /\ req.ac = closure.channels
                    /\ req.bitrate \in {0, closure.bitrateKbps}
          /\ Cardinality(DOMAIN promises) =
               Min(closure.maxConcurrent,
                   Len(closure.fileStates) - chunkStart + 1)
          /\ \A i \in Batch :
               fileStates[i].status = "completed" =>
                 LET name == fileStates[i].result.convertedName
                 IN name[Len(name)] = closure.targetFormat)

\* a later window is in flight after the format and the slider were changed
C9_Witness ==
  /\ isConverting
  /\ chunkStart > 1
  /\ targetFormat # closure.targetFormat
  /\ \E i \in DOMAIN promises : promises[i].stage \in {"fetch", "codec"}

\* C10: the windows of a run are the consecutive index ranges of size
\* min(W, remaining) and run one after another: while a run is in progress
\* the awaited window is chunkStart..min(chunkStart + W - 1, N), every task
\* before it is terminal, every task after it is still Pending and has not
\* had its adapter invoked, and only tasks of the window are Converting.
C10_WindowsSequential ==
  isConverting =>
    LET N == Len(closure.fileStates)
        W == closure.maxConcurrent
        last == Min(chunkStart + W - 1, N)
    IN /\ (chunkStart - 1) % W = 0
       /\ DOMAIN promises = chunkStart..last
       /\ WithStatus("converting") \subseteq chunkStart..last
       /\ \A i \in 1..N :
            /\ i < chunkStart => Terminal(i) /\ calls[i] >= 1
            /\ i > last => fileStates[i].status = "pending" /\ calls[i] = 0

\* window {1, 2} is half done (task 2 returned, task 1 has not) and task 3
\* of the next window is still waiting
C10_Witness ==
  /\ isConverting
  /\ closure.maxConcurrent = 2
  /\ Len(closure.fileStates) = 3
  /\ chunkStart = 1
  /\ fileStates[1].status = "converting"
  /\ Terminal(2)
  /\ fileStates[3].status = "pending"

StatusOf(fs) == [i \in 1..Len(fs) |-> fs[i].status]

\* C11: every change of a task's status is Pending -> Converting,
\* Converting -> Completed, Converting -> Error, or the reset to Pending at
\* the start of a run.  The step that starts a run applies the reset and the
\* marking of the first window one after the other, so it leaves every task
\* Pending or (Pending -> Converting) Converting.  A drop adds Pending tasks
\* and changes no other; a removal takes tasks away and changes no other.
C11_StatusTransitions ==
  [][IF Len(fileStates') < Len(fileStates)
       THEN \/ fileStates' = << >>
            \/ \E index \in 1..Len(fileStates) :
                 StatusOf(fileStates') = RemoveAt(StatusOf(fileStates), index)
       ELSE /\ \A i \in 1..Len(fileStates) :
                 LET a == fileStates[i].status
                     b == fileStates'[i].status
                 IN \/ a = b
                    \/ a = "pending" /\ b = "converting"
                    \/ a = "converting" /\ b \in {"completed", "error"}
                    \/ /\ ~isConverting /\ isConverting'
                       /\ b \in {"pending", "converting"}
            /\ \A i \in (Len(fileStates) + 1)..Len(fileStates') :
                 fileStates'[i].status = "pending"
    ]_vars

\* the second run is converting task 1, which the first run had left
\* terminal, and a task dropped during this run is waiting
C11_Witness ==
  /\ runs = 2
  /\ isConverting
  /\ Len(closure.fileStates) = 1
  /\ fileStates[1].status = "converting"
  /\ Len(fileStates) = 2
  /\ fileStates[2].status = "pending"

\* C12: in every reachable state a task has a result exactly when its
\* status is Completed and an error message exactly when its status is
\* Error.
C12_ResultIffCompleted ==
  \A i \in 1..Len(fileStates) :
    /\ fileStates[i].result # NoResult <=> fileStates[i].status = "completed"
    /\ fileStates[i].error # NoError <=> fileStates[i].status = "error"

\* after a re-run: task 1 failed and has only a message, task 2 has only a
\* result
C12_Witness ==
  /\ runs = 2
  /\ ~isConverting
  /\ Len(fileStates) = 2
  /\ fileStates[1].status = "error"
  /\ fileStates[1].error # NoError
  /\ fileStates[1].result = NoResult
  /\ fileStates[2].status = "completed"
  /\ fileStates[2].result # NoResult
  /\ fileStates[2].error = NoError

\* C13: in the audio pipeline a task whose exec ended with a non-success
\* status never becomes Completed, in the first run and in every re-run on
\* the same engine: the step that follows such an exec leaves the task
\* Converting (another task moved) or sets it to Error.
C13_ExecFailureIsError ==
  [][\A i \in DOMAIN promises :
       promises[i].stage = "readFileAfterFailure" =>
         fileStates'[i].status \in {"converting", "error"}
    ]_vars

\* C14: when convertImages of components/ImageConverter.tsx ends, every
\* selected file has been submitted to the endpoint and the result set
\* holds the result of every file whose call succeeded, also when the call
\* of another file failed.
C14_SequentialKeepsSuccesses ==
  (pipeline = "simple" /\ ~isConverting /\ Len(calls) > 0) =>
    /\ \A i \in Batch : calls[i] = 1
    /\ \A i \in Batch :
         OutcomeOf(i) = "ok" =>
           \E k \in 1..Len(conversionResults) :
             conversionResults[k].blob = [run |-> runs, idx |-> i,
                                          type |-> conversionResults[k].blob.type]

\* C15: a call that never returns does not hang the batch: a run that is
\* in progress ends (isConverting returns to false), the calls that do
\* return being given the time to.
C15_HungCallDoesNotStall == isConverting ~> ~isConverting

\* the tasks a step destroys
Removed ==
  IF fileStates' = << >> THEN 1..Len(fileStates)
  ELSE {i \in 1..Len(fileStates) : fileStates' = RemoveAt(fileStates, i)}

\* C16: removeFile and clear-all release the transient resources of the
\* tasks they destroy: after the step no object URL is live that was created
\* for the result of a removed task.
C16_UrlsRevokedOnRemoval ==
  [][Len(fileStates') < Len(fileStates) =>
       \A i \in Removed :
         fileStates[i].result # NoResult =>
           fileStates[i].result.blob \notin objectUrls'
    ]_vars

\* C17: a task is Completed, its result attached, in the very step in which
\* its own call returns successfully; the other tasks of its window keep
\* the status they have (those still Converting stay Converting), and
\* neither the end of the window nor the end of the run is waited for.
C17_CompletedOnReturn ==
  [][\A i \in DOMAIN promises :
       (/\ Len(outcome') = Len(outcome) + 1
        /\ outcome'[Len(outcome')] = [idx |-> i, res |-> "ok"]) =>
         /\ fileStates'[i].status = "completed"
         /\ fileStates'[i].result # NoResult
         /\ fileStates'[i].result.blob.idx = i
         /\ \A j \in DOMAIN promises \ {i} :
              fileStates'[j].status = fileStates[j].status
    ]_vars

\* task 1 is Completed and has its result while task 2 of the same window
\* is Converting and task 3 of the next window is Pending
C17_Witness ==
  /\ isConverting
  /\ Len(closure.fileStates) = 3
  /\ fileStates[1].status = "completed"
  /\ fileStates[1].result # NoResult
  /\ fileStates[2].status = "converting"
  /\ fileStates[3].status = "pending"

\* C18: starting a run on an empty batch is a no-op: a call of the convert
\* handler that finds no task invokes no adapter and leaves isConverting,
\* the task list, the selection and the result set as they are.
C18_EmptyBatchNoOp ==
  [][(/\ clicks' = clicks + 1
       /\ (pipeline = "audio" => Len(fileStates) = 0)
       /\ (pipeline # "audio" => Len(selectedFiles) = 0)) =>
       /\ isConverting' = isConverting
       /\ fileStates' = fileStates
       /\ selectedFiles' = selectedFiles
       /\ conversionResults' = conversionResults
       /\ promises' = promises
       /\ calls' = calls
       /\ runs' = runs
    ]_vars

\* the handler has been called twice, on an empty selection each time
C18_Witness ==
  /\ clicks = 2
  /\ runs = 0
  /\ ~isConverting
  /\ Len(selectedFiles) = 0
  /\ promises = << >>

\* C19: nothing is retried: within one run the adapter is invoked at most
\* once for a task, a task whose call has returned (with a result or with a
\* failure) has been invoked exactly once and its return is logged once, and
\* when the run has ended every task of the batch has been invoked exactly
\* once.
C19_InvokedOncePerTask ==
  /\ \A i \in Batch :
       /\ calls[i] <= 1
       /\ Cardinality({k \in 1..Len(outcome) : outcome[k].idx = i}) <= 1
       /\ OutcomeOf(i) # "none" => calls[i] = 1
  /\ (~isConverting /\ Len(calls) > 0) => \A i \in Batch : calls[i] = 1

\* a run of three tasks in two windows has ended, with a failure and a
\* success among its calls
C19_Witness ==
  /\ ~isConverting
  /\ Len(calls) = 3
  /\ maxConcurrent = 2
  /\ \E i \in Batch : OutcomeOf(i) = "fail"
  /\ \E i \in Batch : OutcomeOf(i) = "ok"
  /\ \A i \in Batch : calls[i] = 1

\* C20: in every version of the convert endpoint a request that carries a
\* file and a target format that is not a supported name is answered with
\* status 400, whether or not sharp can read the file.
C20_UnsupportedFormatIs400 ==
  (/\ response # NoResponse
   /\ request.file.present
   /\ request.format # ""
   /\ ~SupportedTarget(ToLowerCase(request.format))) => response = 400

\* C21: in every version of the convert endpoint a request (with a file and
\* a format) whose file is larger than 50 MB is answered with status 413,
\* and the file is never handed to the image library.
C21_OversizedIs413 ==
  (/\ response # NoResponse
   /\ request.file.present
   /\ request.format # ""
   /\ request.file.size > MaxFileSize) =>
     response = 413 /\ ~SharpReads(request)

\* C22: for each of the target formats gif, heic, heif, psd, ico and bmp a
\* successful response of the convert endpoint is a png payload: its
\* Content-Type is image/png and its Content-Disposition filename ends in
\* .png.
C22_SubstitutedFormatsArePng ==
  (/\ response = 200
   /\ ToLowerCase(request.format) \in
        {"gif", "heic", "heif", "psd", "ico", "bmp"}) =>
     /\ ContentTypeOf(request) = "png"
     /\ DispositionExtension(request) = "png"

IsCompleted(state) == state.status = "completed"

\* the results of the Completed tasks of fs, in task-list order
CompletedResults(fs) ==
  LET done == SelectSeq(fs, IsCompleted)
  IN [k \in 1..Len(done) |-> done[k].result]

\* C23: whenever no run is in progress the aggregate result set
\* (conversionResults, the input of the archive) is exactly the list of the
\* results of the tasks currently in the task list whose status is
\* Completed, in task-list order.
C23_ResultsAreCompletedTasks ==
  (pipeline # "simple" /\ ~isConverting) =>
    conversionResults = CompletedResults(fileStates)

\* a name with only its last extension removed
LastExtensionRemoved(name) ==
  IF Len(name) >= 2 THEN SubSeq(name, 1, Len(name) - 1) ELSE name

\* C24: for every input file name (with one dot, several dots or a leading
\* dot) the convertedName of a result is the original name with only its
\* last extension removed, followed by '.' and the target format; in the
\* image pipeline it equals the filename the endpoint declares for the same
\* file and format when the endpoint substitutes no format.
C24_ConvertedNameIsStem ==
  \A i \in 1..Len(fileStates) :
    fileStates[i].status = "completed" =>
      LET r == fileStates[i].result
          format == r.convertedName[Len(r.convertedName)]
      IN /\ r.convertedName =
              LastExtensionRemoved(r.originalName) \o << format >>
         /\ (pipeline = "image" /\ ActualFormat(format) = format) =>
              r.convertedName = Filename(r.originalName, format)

\* C25: in the audio pipeline no progress update changes a task's status:
\* a task leaves Converting only in the step in which its own convertSingle
\* call settles, to Completed when it resolved and to Error when it
\* rejected; heartbeat ticks and engine progress events, which log no
\* return, leave every status as it is.
C25_ProgressNeverEndsTask ==
  [][\A i \in 1..Len(fileStates) :
       (/\ i <= Len(fileStates')
        /\ fileStates[i].status = "converting"
        /\ fileStates'[i].status # "converting") =>
         /\ Len(outcome') = Len(outcome) + 1
         /\ outcome'[Len(outcome')].idx = i
         /\ fileStates'[i].status =
              IF outcome'[Len(outcome')].res = "ok" THEN "completed"
              ELSE "error"
    ]_vars

\* a task is still Converting after its heartbeat took it to the cap and
\* the engine reported the end of its work
C25_Witness ==
  /\ ffmpegProgress = 99
  /\ \E i \in 1..Len(fileStates) :
       /\ fileStates[i].status = "converting"
       /\ fileStates[i].progress = 95
       /\ i \in timers

\* C27: in the audio pipeline every task's progress is always within
\* 0..100, is 0 whenever the task is Pending or Error, is 100 whenever the
\* task is Completed, and never decreases while the task stays Converting.
C27_ProgressInRange ==
  /\ [](pipeline = "audio" =>
         \A i \in 1..Len(fileStates) :
           /\ fileStates[i].progress \in 0..100
           /\ fileStates[i].status \in {"pending", "error"} =>
                fileStates[i].progress = 0
           /\ fileStates[i].status = "completed" =>
                fileStates[i].progress = 100)
  /\ [][pipeline = "audio" =>
         \A i \in 1..Len(fileStates) :
           (/\ i <= Len(fileStates')
            /\ fileStates[i].status = "converting"
            /\ fileStates'[i].status = "converting") =>
             fileStates'[i].progress >= fileStates[i].progress]_vars

\* a second run in which one task has failed and stands at 0 again while
\* the heartbeat has taken the other, still Converting, to the cap
C27_Witness ==
  /\ pipeline = "audio"
  /\ runs = 2
  /\ \E i, j \in 1..Len(fileStates) :
       /\ fileStates[i].status = "error"
       /\ fileStates[i].progress = 0
       /\ fileStates[j].status = "converting"
       /\ fileStates[j].progress = 95

\* C30: every heartbeat timer started by convertSingle is cleared on the
\* success path and on the failure path of its conversion: a live timer
\* belongs to a call that is still in its engine section, so no timer is
\* live when no run is in progress, and the task of a live timer is
\* Converting.
C30_TimersCleared ==
  /\ \A i \in timers :
       /\ InEngine(promises, i)
       /\ i \in 1..Len(fileStates)
       /\ fileStates[i].status = "converting"
  /\ ~isConverting => timers = {}

\* a run of two tasks has ended, both calls having loaded an engine and
\* started a timer, one resolved and one rejected
C30_Witness ==
  /\ ~isConverting
  /\ runs = 1
  /\ enginesLoaded = 2
  /\ Len(outcome) = 2
  /\ \E i, j \in Batch : OutcomeOf(i) = "ok" /\ OutcomeOf(j) = "fail"
  /\ timers = {}

FilesOf(fs) == [i \in 1..Len(fs) |-> fs[i].file]

\* C26: a run only annotates tasks in place: while a run is in progress
\* every task keeps its file and its position, a step of the run (one that
\* is not a drop) adds and removes no task, and every Completed task's
\* result.originalName is the name of that task's own file.
C26_AnnotatedInPlace ==
  /\ [](pipeline # "simple" =>
         \A i \in 1..Len(fileStates) :
           fileStates[i].status = "completed" =>
             fileStates[i].result.originalName = fileStates[i].file)
  /\ [][(pipeline # "simple" /\ (isConverting \/ isConverting')) =>
         /\ Len(fileStates') >= Len(fileStates)
         /\ SubSeq(FilesOf(fileStates'), 1, Len(fileStates))
              = FilesOf(fileStates)
         /\ selectedFiles' = selectedFiles =>
              Len(fileStates') = Len(fileStates)]_vars

\* a second run is in progress over one task, and a file of another name
\* has been dropped during it: the task of the batch is where it was
C26_Witness ==
  /\ isConverting
  /\ runs = 2
  /\ Len(closure.fileStates) = 1
  /\ Len(fileStates) = 2
  /\ fileStates[1].file = closure.fileStates[1]
  /\ fileStates[1].file # fileStates[2].file
  /\ fileStates[1].status = "converting"

\* C28: files dropped while a run is in progress are appended as Pending
\* tasks, are not converted by that run and are still Pending with no
\* result and no error when the run ends; the drop does not shift the tasks
\* already in the batch.
C28_DroppedDuringRunStayPending ==
  /\ [](isConverting /\ pipeline # "simple" =>
         /\ Len(fileStates) >= Len(closure.fileStates)
         /\ SubSeq(FilesOf(fileStates), 1, Len(closure.fileStates))
              = closure.fileStates
         /\ \A i \in 1..Len(fileStates) :
              i > Len(closure.fileStates) =>
                /\ fileStates[i].status = "pending"
                /\ fileStates[i].result = NoResult
                /\ fileStates[i].error = NoError
                /\ i \notin DOMAIN promises
                /\ i \notin DOMAIN calls)
  /\ [][(isConverting /\ ~isConverting' /\ pipeline # "simple") =>
         /\ Len(fileStates') = Len(fileStates)
         /\ \A i \in 1..Len(fileStates') :
              i > Len(closure.fileStates) =>
                /\ fileStates'[i].status = "pending"
                /\ fileStates'[i].result = NoResult
                /\ fileStates'[i].error = NoError]_vars

\* a run over two tasks in windows of one is at its second window, the
\* first task is Completed, and the file dropped during the run is Pending
C28_Witness ==
  /\ isConverting
  /\ Len(closure.fileStates) = 2
  /\ closure.maxConcurrent = 1
  /\ chunkStart = 2
  /\ Len(fileStates) = 3
  /\ fileStates[1].status = "completed"
  /\ fileStates[2].status = "converting"
  /\ fileStates[3].status = "pending"
  /\ fileStates[3].result = NoResult

\* C29: in part_000 and AudioConverter at most one run is in progress at
\* any time and the task list cannot shrink during it: a step taken while
\* isConverting starts no run and removes no task, and isConverting is
\* true exactly while a window of a run is awaited, from the start of the
\* run until its last window has finished, whatever the calls returned.
C29_OneRunNoShrink ==
  /\ [](pipeline # "simple" =>
         /\ isConverting <=> promises # << >>
         /\ isConverting <=> closure # NoClosure)
  /\ [][(pipeline # "simple" /\ isConverting) =>
         /\ runs' = runs
         /\ Len(fileStates') >= Len(fileStates)
         /\ Len(selectedFiles') >= Len(selectedFiles)
         /\ closure' \in {closure, NoClosure}]_vars

\* a second run is in progress over a list that a removal has shortened
\* after the first run, which ended with a failure
C29_Witness ==
  /\ isConverting
  /\ runs = 2
  /\ Len(fileStates) = 1
  /\ promises # << >>

====
